---------------------------- MODULE Spec2Model ----------------------------
(***************************************************************************)
(* A model of the two programs of the repository:                          *)
(*   uncertainty/pagerank/pagerank.py  (transition_model, sample_pagerank, *)
(*                                      iterate_pagerank)                  *)
(*   uncertainty/heredity/heredity.py  (load_data, powerset, main's        *)
(*                                      enumeration, joint_probability,    *)
(*                                      update, normalize)                 *)
(*                                                                         *)
(* Python's floats are modelled as exact rational numbers.  Small          *)
(* rationals (transition_model, sample_pagerank) are reduced pairs         *)
(* <<numerator, denominator>>.  Numbers whose numerators outgrow 32 bits   *)
(* (iterate_pagerank's ranks, heredity's joint probabilities) are          *)
(* arbitrary-precision naturals: sequences of base-BASE limbs, least       *)
(* significant first, without leading zero limbs, over a denominator that  *)
(* the state records.                                                      *)
(***************************************************************************)
EXTENDS Integers, Sequences, FiniteSets, Bags, TLC

VARIABLES
    pc,              \* position of the running program
    \* ---- pagerank.py
    corpus,          \* corpus: page -> set of pages it links to
    damping_factor,  \* the damping_factor argument, a rational
    n,               \* sample_pagerank's n / iterate_pagerank's n = len(corpus)
    page,            \* the loop variable `page`
    page_rank,       \* the page_rank dictionary
    model,           \* sample_pagerank's `model` (last transition model)
    i,               \* sample_pagerank's loop index i
    draws,           \* number of random draws made so far (history)
    ok,              \* iterate_pagerank's flag `ok`
    scale,           \* iterate_pagerank: page_rank[p] stands for page_rank[p] / (n * scale)
    snapshot,        \* iterate_pagerank: the ranks at the start of the sweep (history)
    sweeps,          \* iterate_pagerank: number of sweeps started
    \* ---- heredity.py
    rows,            \* the CSV rows read by load_data
    people,          \* the dictionary load_data returns
    probabilities,   \* main's `probabilities`
    ti,              \* position of `have_trait` in powerset(names)
    oi,              \* position of `one_gene` in powerset(names)
    tj,              \* position of `two_genes` in powerset(names - one_gene)
    updated,         \* bag of the worlds update() was applied to (history)
    printed          \* whether main printed the results

prVars == <<corpus, damping_factor, n, page, page_rank, model, i, draws,
            ok, scale, snapshot, sweeps>>
hVars == <<rows, people, probabilities, ti, oi, tj, updated, printed>>
vars == <<pc, prVars, hVars>>

---------------------------------------------------------------------------
(* Bounds of the model *)
MaxPages == 3
MaxLinks == 4
MaxSamples == 3
MaxSweeps == 30
NumPeople == 3

---------------------------------------------------------------------------
(* Exact arithmetic *)

RECURSIVE Gcd(_, _)
Gcd(a, b) ==
    IF b = 0 THEN a
    ELSE CHOOSE r \in {Gcd(t[1], t[2]) : t \in {<<b, a % b>>}} : TRUE

LcmOf(t) == (t[1] * t[2]) \div Gcd(t[1], t[2])

Lcm(a, b) == CHOOSE r \in {LcmOf(t) : t \in {<<a, b>>}} : TRUE

\* st = <<S, acc>>
SetLcmStep(st) ==
    LET x == CHOOSE y \in st[1] : TRUE IN <<st[1] \ {x}, Lcm(x, st[2])>>

RECURSIVE SetLcmLoop(_)
SetLcmLoop(st) ==
    IF st[1] = {} THEN st[2]
    ELSE CHOOSE r \in {SetLcmLoop(t) : t \in {SetLcmStep(st)}} : TRUE

SetLcm(S) == CHOOSE r \in {SetLcmLoop(t) : t \in {<<S, 1>>}} : TRUE

\* Reduced rationals <<num, den>>, den > 0, num >= 0.
Rat(a, b) == LET g == Gcd(a, b) IN <<a \div g, b \div g>>
RatAdd(x, y) == Rat(x[1] * y[2] + y[1] * x[2], x[2] * y[2])
RatSub(x, y) == Rat(x[1] * y[2] - y[1] * x[2], x[2] * y[2])
RatDiv(x, k) == Rat(x[1], x[2] * k)
RatZero == <<0, 1>>
RatOne == <<1, 1>>

RECURSIVE RatSum(_, _)
RatSum(f, S) ==
    IF S = {} THEN RatZero
    ELSE LET x == CHOOSE y \in S : TRUE IN RatAdd(f[x], RatSum(f, S \ {x}))

RECURSIVE IntSum(_, _)
IntSum(f, S) ==
    IF S = {} THEN 0
    ELSE LET x == CHOOSE y \in S : TRUE IN f[x] + IntSum(f, S \ {x})

\* Arbitrary-precision naturals.  Every loop below carries its whole state
\* in one tuple and binds the next state as a value before it recurses, so
\* that each limb is computed once.
BASE == 10 ^ 4

Limb(a, k) == IF k <= Len(a) THEN a[k] ELSE 0

RECURSIVE BigNorm(_)
BigNorm(a) ==
    IF a = <<>> \/ a[Len(a)] # 0 THEN a
    ELSE CHOOSE r \in {BigNorm(t) : t \in {SubSeq(a, 1, Len(a) - 1)}} : TRUE

RECURSIVE BigOfInt(_)
BigOfInt(k) == IF k = 0 THEN <<>> ELSE <<k % BASE>> \o BigOfInt(k \div BASE)

\* st = <<a, b, k, carry, acc>>
BigAddStep(st) ==
    LET s == Limb(st[1], st[3]) + Limb(st[2], st[3]) + st[4]
    IN <<st[1], st[2], st[3] + 1, s \div BASE, Append(st[5], s % BASE)>>

RECURSIVE BigAddLoop(_)
BigAddLoop(st) ==
    IF st[3] > Len(st[1]) /\ st[3] > Len(st[2])
    THEN IF st[4] = 0 THEN st[5] ELSE Append(st[5], st[4])
    ELSE CHOOSE r \in {BigAddLoop(t) : t \in {BigAddStep(st)}} : TRUE

BigAdd(a, b) == CHOOSE r \in {BigAddLoop(t) : t \in {<<a, b, 1, 0, <<>>>>}} : TRUE

\* st = <<a, m, k, carry, acc>>
BigMulStep(st) ==
    LET s == st[1][st[3]] * st[2] + st[4]
    IN <<st[1], st[2], st[3] + 1, s \div BASE, Append(st[5], s % BASE)>>

RECURSIVE BigMulLoop(_)
BigMulLoop(st) ==
    IF st[3] > Len(st[1])
    THEN IF st[4] = 0 THEN st[5] ELSE Append(st[5], st[4])
    ELSE CHOOSE r \in {BigMulLoop(t) : t \in {BigMulStep(st)}} : TRUE

\* a * m for an ordinary natural m < BASE
BigMul(a, m) ==
    IF m = 0 THEN <<>>
    ELSE CHOOSE r \in {BigMulLoop(t) : t \in {<<a, m, 1, 0, <<>>>>}} : TRUE

\* st = <<a, b, k>>, Len(a) = Len(b), limbs above k equal
RECURSIVE BigLessLoop(_)
BigLessLoop(st) ==
    IF st[3] = 0 THEN FALSE
    ELSE IF st[1][st[3]] # st[2][st[3]] THEN st[1][st[3]] < st[2][st[3]]
    ELSE CHOOSE r \in {BigLessLoop(t) : t \in {<<st[1], st[2], st[3] - 1>>}} : TRUE

BigLessOf(t) ==
    IF Len(t[1]) # Len(t[2]) THEN Len(t[1]) < Len(t[2])
    ELSE CHOOSE r \in {BigLessLoop(u) : u \in {<<t[1], t[2], Len(t[1])>>}} : TRUE

BigLess(a, b) == CHOOSE r \in {BigLessOf(t) : t \in {<<a, b>>}} : TRUE

\* st = <<a, b, k, borrow, acc>>, a >= b
BigSubStep(st) ==
    LET s == st[1][st[3]] - Limb(st[2], st[3]) - st[4]
    IN <<st[1], st[2], st[3] + 1,
         IF s < 0 THEN 1 ELSE 0,
         Append(st[5], IF s < 0 THEN s + BASE ELSE s)>>

RECURSIVE BigSubLoop(_)
BigSubLoop(st) ==
    IF st[3] > Len(st[1]) THEN BigNorm(st[5])
    ELSE CHOOSE r \in {BigSubLoop(t) : t \in {BigSubStep(st)}} : TRUE

BigAbsDiffOf(t) ==
    CHOOSE r \in {BigSubLoop(u) :
                    u \in {IF BigLess(t[1], t[2]) THEN <<t[2], t[1], 1, 0, <<>>>>
                           ELSE <<t[1], t[2], 1, 0, <<>>>>}} : TRUE

\* |a - b|
BigAbsDiff(a, b) == CHOOSE r \in {BigAbsDiffOf(t) : t \in {<<a, b>>}} : TRUE

\* st = <<f, S, acc>>
BigSumStep(st) ==
    LET x == CHOOSE y \in st[2] : TRUE
    IN <<st[1], st[2] \ {x}, BigAdd(st[3], st[1][x])>>

RECURSIVE BigSumLoop(_)
BigSumLoop(st) ==
    IF st[2] = {} THEN st[3]
    ELSE CHOOSE r \in {BigSumLoop(t) : t \in {BigSumStep(st)}} : TRUE

BigSum(f, S) == CHOOSE r \in {BigSumLoop(t) : t \in {<<f, S, <<>>>>}} : TRUE

---------------------------------------------------------------------------
(* pagerank.py: inputs *)

\* DAMPING = 0.85
DAMPING == Rat(85, 100)

\* The damping_factor values passed by callers of the functions.
Dampings == {DAMPING, Rat(1, 2)}

Pages(c) == DOMAIN c

LinkCount(c) == IntSum([p \in Pages(c) |-> Cardinality(c[p])], Pages(c))

\* What crawl returns: every link is to another page of the corpus.
Corpora ==
    UNION { { c \in [1..N -> SUBSET (1..N)] :
                /\ \A p \in 1..N : p \notin c[p]
                /\ LinkCount(c) <= MaxLinks } : N \in 1..MaxPages }

---------------------------------------------------------------------------
(* pagerank.py: transition_model *)

transition_model(c, p, d) ==
    LET num == Cardinality(c[p])
        length == Cardinality(Pages(c))
        outgoing == [q \in Pages(c) |->
                        IF q \in c[p] THEN RatDiv(DAMPING, num) ELSE RatZero]
    IN IF num # 0
       THEN [q \in Pages(c) |->
                RatAdd(outgoing[q], RatDiv(RatSub(RatOne, DAMPING), length))]
       ELSE [q \in Pages(c) |-> Rat(1, length)]

---------------------------------------------------------------------------
(* pagerank.py: sample_pagerank *)

\* (faulty variant of LoopCount: for i in range(n))
LoopCountOffByOne(k) == k

\* for i in range(n-1)
LoopCount(k) == k - 1

\* random.choices(pageList, weights=prob, k=1): a page of positive weight
Choices(m) == {q \in DOMAIN m : m[q][1] > 0}

IdleIterate == ok = FALSE /\ scale = <<>> /\ snapshot = <<>> /\ sweeps = 0
IdleSample == model = <<>> /\ i = 0 /\ draws = 0
IdleHeredity ==
    /\ rows = <<>> /\ people = <<>> /\ probabilities = <<>>
    /\ ti = 0 /\ oi = 0 /\ tj = 0 /\ updated = EmptyBag /\ printed = FALSE

InitSample ==
    /\ pc = "sample_start"
    /\ corpus \in Corpora
    /\ damping_factor \in Dampings
    /\ n \in 1..MaxSamples
    /\ page = 0
    /\ page_rank = [p \in Pages(corpus) |-> 0]
    /\ model = <<>> /\ i = 0 /\ draws = 0
    /\ IdleIterate
    /\ IdleHeredity

ChooseFirstPage ==
    /\ pc = "sample_start"
    /\ \E q \in Pages(corpus) :
          /\ page' = q
          /\ page_rank' = [page_rank EXCEPT ![q] = @ + 1]
    /\ draws' = draws + 1
    /\ pc' = "sample_loop"
    /\ UNCHANGED <<corpus, damping_factor, n, model, i, ok, scale, snapshot, sweeps>>
    /\ UNCHANGED hVars

GetTransitionModel ==
    /\ pc = "sample_loop"
    /\ i < LoopCount(n)
    /\ model' = transition_model(corpus, page, damping_factor)
    /\ pc' = "sample_draw"
    /\ UNCHANGED <<corpus, damping_factor, n, page, page_rank, i, draws,
                   ok, scale, snapshot, sweeps>>
    /\ UNCHANGED hVars

DrawNextPage ==
    /\ pc = "sample_draw"
    /\ \E q \in Choices(model) :
          /\ page' = q
          /\ page_rank' = [page_rank EXCEPT ![q] = @ + 1]
    /\ draws' = draws + 1
    /\ i' = i + 1
    /\ pc' = "sample_loop"
    /\ UNCHANGED <<corpus, damping_factor, n, model, ok, scale, snapshot, sweeps>>
    /\ UNCHANGED hVars

FinishSampling ==
    /\ pc = "sample_loop"
    /\ i >= LoopCount(n)
    /\ page_rank' = [p \in Pages(corpus) |-> Rat(page_rank[p], n)]
    /\ pc' = "sample_done"
    /\ UNCHANGED <<corpus, damping_factor, n, page, model, i, draws,
                   ok, scale, snapshot, sweeps>>
    /\ UNCHANGED hVars

NextSample ==
    \/ ChooseFirstPage
    \/ GetTransitionModel
    \/ DrawNextPage
    \/ FinishSampling

SpecSample == InitSample /\ [][NextSample]_vars

---------------------------------------------------------------------------
(* pagerank.py: iterate_pagerank *)

\* page_link: for every page, the pages that link to it
page_link(c) == [p \in Pages(c) |-> {q \in Pages(c) : p \in c[q]}]

\* Every division of one update is by the out-degree of a page or by n:
\* one update multiplies the common denominator n * scale by Step(c, d).
Divisors(c) == {Cardinality(c[p]) : p \in Pages(c)} \ {0}
LinkLcm(c) == SetLcm(Divisors(c) \cup {Cardinality(Pages(c))})
Step(c, d) == d[2] * LinkLcm(c)

\* 0.001
THRESHOLD == Rat(1, 1000)

\* s += page_rank[parent_page] / num_links, or / n for a parent without links
ParentShare(c, r, q) ==
    LET num_links == Cardinality(c[q])
    IN IF num_links # 0 THEN BigMul(r[q], LinkLcm(c) \div num_links)
       ELSE BigMul(r[q], LinkLcm(c) \div Cardinality(Pages(c)))

\* new_rank of page p computed from the ranks r (numerators over n * e),
\* as a numerator over n * e * Step(c, d)
NewRank(c, d, r, e, p) ==
    LET parents == page_link(c)[p]
        s == BigSum([q \in parents |-> ParentShare(c, r, q)], parents)
    IN BigAdd(BigMul(e, (d[2] - d[1]) * LinkLcm(c)), BigMul(s, d[1]))

\* (faulty variant of Exceeds: a threshold of 0)
ExceedsZero(old, new, k, e) == old # new

\* abs(page_rank[page] - new_rank) > 0.001, both numerators over n * e
Exceeds(old, new, k, e) ==
    BigLess(BigMul(BigMul(e, k), THRESHOLD[1]),
            BigMul(BigAbsDiff(old, new), THRESHOLD[2]))

Rescale(r, m) == [q \in DOMAIN r |-> BigMul(r[q], m)]

InitIterate ==
    /\ pc = "iter_while"
    /\ corpus \in Corpora
    /\ damping_factor = DAMPING
    /\ n = Cardinality(Pages(corpus))
    /\ page = 0
    /\ page_rank = [p \in Pages(corpus) |-> BigOfInt(1)]
    /\ scale = BigOfInt(1)
    /\ snapshot = [p \in Pages(corpus) |-> BigOfInt(1)]
    /\ ok = FALSE
    /\ sweeps = 0
    /\ IdleSample
    /\ IdleHeredity

StartSweep ==
    /\ pc = "iter_while"
    /\ ok = FALSE
    /\ sweeps < MaxSweeps
    /\ ok' = TRUE
    /\ sweeps' = sweeps + 1
    /\ snapshot' = page_rank
    /\ page' = 1
    /\ pc' = "iter_for"
    /\ UNCHANGED <<corpus, damping_factor, n, page_rank, model, i, draws, scale>>
    /\ UNCHANGED hVars

UpdatePage ==
    /\ pc = "iter_for"
    /\ \E m \in {Step(corpus, damping_factor)} :
       \E new_rank \in {NewRank(corpus, damping_factor, page_rank, scale, page)} :
       \E old_rank \in {BigMul(page_rank[page], m)} :
          /\ ok' = IF Exceeds(old_rank, new_rank, n, BigMul(scale, m))
                   THEN FALSE ELSE ok
          /\ page_rank' = [q \in Pages(corpus) |->
                              IF q = page THEN new_rank ELSE BigMul(page_rank[q], m)]
          /\ snapshot' = Rescale(snapshot, m)
          /\ scale' = BigMul(scale, m)
    /\ IF page < n
       THEN page' = page + 1 /\ pc' = "iter_for"
       ELSE page' = page /\ pc' = "iter_while"
    /\ UNCHANGED <<corpus, damping_factor, n, model, i, draws, sweeps>>
    /\ UNCHANGED hVars

ReturnRanks ==
    /\ pc = "iter_while"
    /\ ok = TRUE
    /\ pc' = "iter_done"
    /\ UNCHANGED prVars
    /\ UNCHANGED hVars

NextIterate ==
    \/ StartSweep
    \/ UpdatePage
    \/ ReturnRanks

SpecIterate == InitIterate /\ [][NextIterate]_vars /\ WF_vars(NextIterate)

---------------------------------------------------------------------------
(* heredity.py: inputs *)

\* PROBS, in hundredths
PROBS ==
    [gene |-> [k \in 0..2 |-> IF k = 2 THEN 1 ELSE IF k = 1 THEN 3 ELSE 96],
     trait |-> [k \in 0..2 |->
                  IF k = 2 THEN [t \in BOOLEAN |-> IF t THEN 65 ELSE 35]
                  ELSE IF k = 1 THEN [t \in BOOLEAN |-> IF t THEN 56 ELSE 44]
                  ELSE [t \in BOOLEAN |-> IF t THEN 1 ELSE 99]],
     mutation |-> 1]

\* 1.0 and 0.5, in hundredths
Hundred == 10 * 10
Half == Hundred \div 2

\* Python's None, True and False as they are stored in `people`
None == "None"
PyBool(b) == IF b THEN "True" ELSE "False"

AllNames == <<"Harry", "James", "Lily", "Albus", "Molly">>
Names == {AllNames[k] : k \in 1..NumPeople}
\* a name that no row of the file has
Stranger == "Nobody"

\* The files read: one row per name.  The first person's mother field is
\* blank or a person of the file, the father field blank, a person of the
\* file or a stranger; the other people have no parents.  Every trait field
\* is "1", "0" or blank.
Files ==
    { [x \in Names |->
          [name |-> x,
           mother |-> IF x = AllNames[1] THEN m ELSE "",
           father |-> IF x = AllNames[1] THEN f ELSE "",
           trait |-> tr[x]]] :
        m \in {"", AllNames[3]},
        f \in {"", AllNames[2], Stranger},
        tr \in [Names -> {"1", "0", ""}] }

---------------------------------------------------------------------------
(* heredity.py: load_data, powerset *)

load_data(file) ==
    [x \in DOMAIN file |->
        [name |-> file[x].name,
         mother |-> IF file[x].mother # "" THEN file[x].mother ELSE None,
         father |-> IF file[x].father # "" THEN file[x].father ELSE None,
         trait |-> IF file[x].trait = "1" THEN PyBool(TRUE)
                   ELSE IF file[x].trait = "0" THEN PyBool(FALSE)
                   ELSE None]]

\* list(s)
ListOf(S) == SelectSeq(AllNames, LAMBDA x : x \in S)

\* itertools.combinations(l, r), as sets
RECURSIVE combinations(_, _)
combinations(l, r) ==
    IF r = 0 THEN << {} >>
    ELSE IF Len(l) < r THEN << >>
    ELSE LET with == combinations(Tail(l), r - 1)
         IN [k \in 1..Len(with) |-> {Head(l)} \cup with[k]]
            \o combinations(Tail(l), r)

\* itertools.chain.from_iterable(combinations(s, r) for r in range(upto))
RECURSIVE chain(_, _, _)
chain(l, r, upto) ==
    IF r >= upto THEN << >> ELSE combinations(l, r) \o chain(l, r + 1, upto)

powerset(S) == chain(ListOf(S), 0, Cardinality(S) + 1)

---------------------------------------------------------------------------
(* heredity.py: joint_probability, update, normalize *)

\* pm / pf: the probability that a parent passes the gene on, in hundredths
PassProb(parent, one_gene, two_genes) ==
    IF parent \in one_gene THEN Half - PROBS.mutation
    ELSE IF parent \in two_genes THEN Hundred - PROBS.mutation
    ELSE PROBS.mutation

\* trait = False; if person in have_trait: trait = True
HasTrait(person, have_trait) == (person \in have_trait)

\* gene = 0; if person in one_gene: gene = 1; elif person in two_genes: gene = 2
GeneCount(person, one_gene, two_genes) ==
    IF person \in one_gene THEN 1 ELSE IF person \in two_genes THEN 2 ELSE 0

\* (faulty variant of prob_gene: the prior of a person without parents read at
\* the wrong key)
prob_geneWrongKey(ppl, person, one_gene, two_genes) ==
    PROBS.gene[2 - GeneCount(person, one_gene, two_genes)]

\* prob_gene of one person: in hundredths for a person without a mother,
\* in ten-thousandths for a person with one
prob_gene(ppl, person, one_gene, two_genes) ==
    IF ppl[person].mother # None
    THEN LET pm == PassProb(ppl[person].mother, one_gene, two_genes)
             pnm == Hundred - pm
             pf == PassProb(ppl[person].father, one_gene, two_genes)
             pnf == Hundred - pf
         IN IF person \in one_gene THEN pm * pnf + pf * pnm
            ELSE IF person \in two_genes THEN pm * pf
            ELSE pnm * pnf
    ELSE PROBS.gene[GeneCount(person, one_gene, two_genes)]

prob_trait(person, one_gene, two_genes, have_trait) ==
    PROBS.trait[GeneCount(person, one_gene, two_genes)][HasTrait(person, have_trait)]

\* st = <<people still to multiply in, final_prob>>
JointStep(ppl, one_gene, two_genes, have_trait, st) ==
    LET person == CHOOSE x \in st[1] : TRUE
    IN <<st[1] \ {person},
         BigMul(BigMul(st[2], prob_gene(ppl, person, one_gene, two_genes)),
                prob_trait(person, one_gene, two_genes, have_trait))>>

RECURSIVE JointLoop(_, _, _, _, _)
JointLoop(ppl, one_gene, two_genes, have_trait, st) ==
    IF st[1] = {} THEN st[2]
    ELSE CHOOSE r \in
           {JointLoop(ppl, one_gene, two_genes, have_trait, t) :
               t \in {JointStep(ppl, one_gene, two_genes, have_trait, st)}} : TRUE

\* The joint probability of one world: a numerator over the product of the
\* people's denominators (100 * 100 per person without a mother,
\* 10000 * 100 per person with one), which is the same for every world.
joint_probability(ppl, one_gene, two_genes, have_trait) ==
    JointLoop(ppl, one_gene, two_genes, have_trait, <<DOMAIN ppl, BigOfInt(1)>>)

update(probs, one_gene, two_genes, have_trait, p) ==
    [person \in DOMAIN probs |->
        [gene |-> [probs[person].gene
                     EXCEPT ![GeneCount(person, one_gene, two_genes)] = BigAdd(@, p)],
         trait |-> [probs[person].trait
                     EXCEPT ![HasTrait(person, have_trait)] = BigAdd(@, p)]]]

\* normalize: every value times 1 / prob_sum, kept as <<value, prob_sum>>
normalize(probs) ==
    [person \in DOMAIN probs |->
        LET gene_sum == BigSum(probs[person].gene, 0..2)
            trait_sum == BigAdd(probs[person].trait[FALSE], probs[person].trait[TRUE])
        IN [gene |-> [g \in 0..2 |-> <<probs[person].gene[g], gene_sum>>],
            trait |-> [t \in BOOLEAN |-> <<probs[person].trait[t], trait_sum>>]]]

\* 1 / prob_sum raises ZeroDivisionError
DividesByZero(probs) ==
    \E person \in DOMAIN probs :
        \/ BigSum(probs[person].gene, 0..2) = <<>>
        \/ BigAdd(probs[person].trait[FALSE], probs[person].trait[TRUE]) = <<>>

---------------------------------------------------------------------------
(* heredity.py: main *)

\* (faulty variant of fails_evidence: only the people outside have_trait are checked)
fails_evidenceOutsideOnly(ppl, have_trait) ==
    \E person \in DOMAIN ppl :
        /\ person \notin have_trait
        /\ ppl[person].trait # None
        /\ ppl[person].trait # PyBool(person \in have_trait)

fails_evidence(ppl, have_trait) ==
    \E person \in DOMAIN ppl :
        /\ ppl[person].trait # None
        /\ ppl[person].trait # PyBool(person \in have_trait)

\* (faulty variant of two_genes_sets: powerset(names))
two_genes_setsAll(names, one_gene) == powerset(names)

\* the sets `two_genes` ranges over: powerset(names - one_gene)
two_genes_sets(names, one_gene) == powerset(names \ one_gene)

IdlePagerank ==
    /\ corpus = <<>> /\ damping_factor = <<>> /\ n = 0 /\ page = 0
    /\ page_rank = <<>> /\ IdleSample /\ IdleIterate

InitHeredity ==
    /\ pc = "load"
    /\ rows \in Files
    /\ people = <<>>
    /\ probabilities = <<>>
    /\ ti = 0 /\ oi = 0 /\ tj = 0
    /\ updated = EmptyBag
    /\ printed = FALSE
    /\ IdlePagerank

\* people = load_data(sys.argv[1]); probabilities = {...}; names = set(people)
LoadData ==
    /\ pc = "load"
    /\ people' = load_data(rows)
    /\ probabilities' =
          [person \in DOMAIN rows |->
              [gene |-> [g \in 0..2 |-> <<>>], trait |-> [t \in BOOLEAN |-> <<>>]]]
    /\ ti' = 1
    /\ pc' = "trait_loop"
    /\ UNCHANGED <<rows, oi, tj, updated, printed>>
    /\ UNCHANGED prVars

\* for have_trait in powerset(names): if fails_evidence: continue
SkipTraitSet ==
    /\ pc = "trait_loop"
    /\ ti <= Len(powerset(DOMAIN people))
    /\ fails_evidence(people, powerset(DOMAIN people)[ti])
    /\ ti' = ti + 1
    /\ UNCHANGED <<pc, rows, people, probabilities, oi, tj, updated, printed>>
    /\ UNCHANGED prVars

\* ... otherwise enter: for one_gene in powerset(names): for two_genes in ...
EnterGeneLoops ==
    /\ pc = "trait_loop"
    /\ ti <= Len(powerset(DOMAIN people))
    /\ ~fails_evidence(people, powerset(DOMAIN people)[ti])
    /\ oi' = 1
    /\ tj' = 1
    /\ pc' = "gene_loop"
    /\ UNCHANGED <<rows, people, probabilities, ti, updated, printed>>
    /\ UNCHANGED prVars

\* p = joint_probability(...); update(probabilities, ..., p); next two_genes,
\* else next one_gene, else next have_trait
UpdateWorld ==
    /\ pc = "gene_loop"
    /\ \E names \in {DOMAIN people} :
       \E sets \in {powerset(names)} :
       \E have_trait \in {sets[ti]} :
       \E one_gene \in {sets[oi]} :
       \E rest \in {two_genes_sets(names, one_gene)} :
       \E two_genes \in {rest[tj]} :
       \E p \in {joint_probability(people, one_gene, two_genes, have_trait)} :
          /\ probabilities' = update(probabilities, one_gene, two_genes, have_trait, p)
          /\ updated' = updated (+) SetToBag({<<one_gene, two_genes, have_trait>>})
          /\ IF tj < Len(rest)
             THEN tj' = tj + 1 /\ UNCHANGED <<oi, ti, pc>>
             ELSE IF oi < Len(sets)
             THEN tj' = 1 /\ oi' = oi + 1 /\ UNCHANGED <<ti, pc>>
             ELSE tj' = 1 /\ oi' = 1 /\ ti' = ti + 1 /\ pc' = "trait_loop"
    /\ UNCHANGED <<rows, people, printed>>
    /\ UNCHANGED prVars

\* normalize(probabilities)
Normalize ==
    /\ pc = "trait_loop"
    /\ ti > Len(powerset(DOMAIN people))
    /\ IF DividesByZero(probabilities)
       THEN pc' = "error" /\ UNCHANGED probabilities
       ELSE pc' = "print" /\ probabilities' = normalize(probabilities)
    /\ UNCHANGED <<rows, people, ti, oi, tj, updated, printed>>
    /\ UNCHANGED prVars

\* the printing loop
PrintResults ==
    /\ pc = "print"
    /\ printed' = TRUE
    /\ pc' = "done"
    /\ UNCHANGED <<rows, people, probabilities, ti, oi, tj, updated>>
    /\ UNCHANGED prVars

NextHeredity ==
    \/ LoadData
    \/ SkipTraitSet
    \/ EnterGeneLoops
    \/ UpdateWorld
    \/ Normalize
    \/ PrintResults

SpecHeredity == InitHeredity /\ [][NextHeredity]_vars

---------------------------------------------------------------------------
(* Properties of pagerank.py *)

\* The ranks iterate_pagerank holds, summed: a numerator over n * scale
RankTotal == BigSum(page_rank, Pages(corpus))

\* C1: when iterate_pagerank's loop has stopped, the returned ranks sum to 1
\* within 1e-3: |sum - 1| <= 1/1000.
C1_RanksSumToOne ==
    pc = "iter_done" =>
        ~BigLess(BigMul(scale, n),
                 BigMul(BigAbsDiff(RankTotal, BigMul(scale, n)), 1000))

\* The distribution the transition model is specified to return for damping d
ReferenceDistribution(c, p, d) ==
    LET k == Cardinality(c[p])
        N == Cardinality(Pages(c))
        baseline == RatDiv(RatSub(RatOne, d), N)
    IN [q \in Pages(c) |->
          IF k = 0 THEN Rat(1, N)
          ELSE IF q \in c[p] THEN RatAdd(RatDiv(d, k), baseline)
          ELSE baseline]

\* C2: transition_model(corpus, p, d) returns the reference distribution for
\* the damping factor d it was passed: d/k + (1-d)/N for the pages linked
\* from p, (1-d)/N for the others, and 1/N everywhere when p has no links.
C2_TransitionModelIsReference ==
    pc = "sample_draw" =>
        model = ReferenceDistribution(corpus, page, damping_factor)

\* C5: sample_pagerank records one visit per draw: during the walk the visit
\* counts sum to the number of draws made so far (the first page and one per
\* iteration), and at the end n draws were made and the values sum to 1.
C5_VisitsCounted ==
    /\ pc \in {"sample_loop", "sample_draw"} =>
          /\ IntSum(page_rank, Pages(corpus)) = draws
          /\ draws = i + 1
    /\ pc = "sample_done" =>
          /\ draws = n
          /\ RatSum(page_rank, Pages(corpus)) = RatOne

C5_Witness ==
    /\ pc = "sample_done"
    /\ n = MaxSamples
    /\ Cardinality(Pages(corpus)) >= 2
    /\ \E p \in Pages(corpus) : page_rank[p] = Rat(1, n)

\* C5 also covers n = 1: the first page is the only visit
C5_WitnessSingleSample ==
    pc = "sample_done" /\ n = 1 /\ RatSum(page_rank, Pages(corpus)) = RatOne

\* C7: in every sweep, the new rank of a page is computed from the ranks as
\* they stood at the start of the sweep.
C7_SweepReadsSnapshot ==
    [][pc = "iter_for" =>
          page_rank'[page] =
              NewRank(corpus, damping_factor, snapshot, scale, page)]_vars

\* The pages without outgoing links
Dangling(c) == {p \in Pages(c) : c[p] = {}}

\* The new rank of page p when every page without links also contributes
\* rank / N to it: a numerator over n * e * Step(c, d)
NewRankWithDangling(c, d, r, e, p) ==
    LET N == Cardinality(Pages(c))
        mass == BigSum([q \in Dangling(c) |-> BigMul(r[q], LinkLcm(c) \div N)],
                       Dangling(c))
    IN BigAdd(NewRank(c, d, r, e, p), BigMul(mass, d[1]))

\* C8: in each sweep every page without outgoing links contributes
\* damping_factor * rank / N to the new rank of every page, on top of the
\* (1-d)/N baseline and the shares of the pages that link to it.
C8_DanglingContributes ==
    [][pc = "iter_for" =>
          page_rank'[page] =
              NewRankWithDangling(corpus, damping_factor, page_rank, scale, page)]_vars

\* C10: iterate_pagerank terminates: a sweep without a change above 0.001
\* occurs, the loop exits and the ranks are returned.
C10_Terminates == <>(pc = "iter_done")

C10_Witness ==
    pc = "iter_done" /\ ok = TRUE /\ sweeps >= 10 /\ \E p \in Pages(corpus) : corpus[p] # {}

---------------------------------------------------------------------------
(* Properties of heredity.py *)

\* A normalized value <<value, prob_sum>> is 1, is 0, is k hundredths
IsOne(x) == x[2] # <<>> /\ x[1] = x[2]
IsZero(x) == x[2] # <<>> /\ x[1] = <<>>
IsHundredths(x, k) == x[2] # <<>> /\ BigMul(x[1], Hundred) = BigMul(x[2], k)

Normalized == pc \in {"print", "done"}

\* C3: after enumeration, accumulation and normalize, a person with known
\* trait evidence t has probability 1 on t and 0 on the opposite value.
C3_EvidenceCertain ==
    /\ pc # "error"
    /\ Normalized =>
          \A person \in DOMAIN people :
              people[person].trait # None =>
                  LET t == (people[person].trait = PyBool(TRUE))
                  IN /\ IsOne(probabilities[person].trait[t])
                     /\ IsZero(probabilities[person].trait[~t])

C3_Witness ==
    /\ pc = "done"
    /\ people[AllNames[1]].mother = AllNames[3]
    /\ people[AllNames[1]].father = AllNames[2]
    /\ people[AllNames[1]].trait = PyBool(TRUE)
    /\ people[AllNames[2]].trait = PyBool(FALSE)
    /\ IsOne(probabilities[AllNames[1]].trait[TRUE])
    /\ IsOne(probabilities[AllNames[2]].trait[FALSE])

NoParents(ppl) ==
    \A x \in DOMAIN ppl : ppl[x].mother = None /\ ppl[x].father = None

IsPrior(dist) == \A g \in 0..2 : IsHundredths(dist[g], PROBS.gene[g])

\* C4 (as stated): in a population without parent links every person's
\* normalized gene distribution equals the prior PROBS["gene"], whatever
\* trait evidence is recorded.
C4_GenePriorWhateverEvidence ==
    Normalized /\ NoParents(people) =>
        \A person \in DOMAIN people : IsPrior(probabilities[person].gene)

\* C4 (amended): in a population without parent links, the normalized gene
\* distribution of every person whose own trait is unknown equals the prior
\* PROBS["gene"], whatever trait evidence is recorded for the other people.
C4_GenePriorUnknownTrait ==
    Normalized /\ NoParents(people) =>
        \A person \in DOMAIN people :
            people[person].trait = None => IsPrior(probabilities[person].gene)

C4_Witness ==
    /\ pc = "done"
    /\ NoParents(people)
    /\ people[AllNames[1]].trait = None
    /\ people[AllNames[2]].trait = PyBool(TRUE)
    /\ IsPrior(probabilities[AllNames[1]].gene)
    /\ ~IsPrior(probabilities[AllNames[2]].gene)

\* A record with exactly one of mother/father blank, or with a mother or
\* father that names nobody of the file
Malformed(file) ==
    \E x \in DOMAIN file :
        \/ (file[x].mother = "") # (file[x].father = "")
        \/ file[x].mother # "" /\ file[x].mother \notin DOMAIN file
        \/ file[x].father # "" /\ file[x].father \notin DOMAIN file

\* C6: a malformed population is rejected before any inference step:
\* joint_probability and update are never reached and nothing is printed.
C6_MalformedRejected ==
    Malformed(rows) => updated = EmptyBag /\ pc # "gene_loop" /\ ~printed

EvidenceConsistent(ppl, have_trait) ==
    \A x \in DOMAIN ppl :
        \/ ppl[x].trait = None
        \/ ppl[x].trait = PyBool(TRUE) /\ x \in have_trait
        \/ ppl[x].trait = PyBool(FALSE) /\ x \notin have_trait

ConsistentWorlds(ppl) ==
    {w \in (SUBSET DOMAIN ppl) \X (SUBSET DOMAIN ppl) \X (SUBSET DOMAIN ppl) :
        w[1] \cap w[2] = {} /\ EvidenceConsistent(ppl, w[3])}

\* C9: update() is applied exactly once to each world whose one_gene and
\* two_genes are disjoint and whose have_trait agrees with the evidence, and
\* never to any other world: when the enumeration has ended, the worlds
\* update() was applied to are one copy of each such world.
C9_EachWorldOnce ==
    pc \in {"print", "done", "error"} =>
        updated = SetToBag(ConsistentWorlds(people))

C9_Witness ==
    /\ pc = "done"
    /\ \E x \in DOMAIN people : people[x].trait # None
    /\ \E x \in DOMAIN people : people[x].trait = None
    /\ BagCardinality(updated) >= 2 * (3 ^ NumPeople)
    /\ \E w \in BagToSet(updated) : w[1] # {} /\ w[2] # {} /\ w[3] # {}

============================================================================
